---- MODULE Spec2Model ----
(***************************************************************************)
(* The game page of chesster: the rules engine instance held by            *)
(* useChessGame, the React state of useChessGame and useExploration, the   *)
(* coordinator callbacks of useGameState and the handlers of GamePage.     *)
(*                                                                         *)
(* A handler runs to completion against the state of the render it was     *)
(* created in: reads of gameState / explorationState inside one handler    *)
(* see the values from before the handler started, setState calls are      *)
(* queued and applied afterwards (the last plain value wins, functional    *)
(* updates are applied in order), while the engine object `game` is        *)
(* mutated in place at once.                                               *)
(***************************************************************************)
EXTENDS Integers, Sequences, FiniteSets, TLC

\* ------------------------------------------------------------------ bounds
\* Plies of the deepest position a piece may be dropped in.
MaxPly == 3
\* Longest suggested line offered for exploration.
MaxLineLen == 2
\* Messages in the coach chat beyond which no question is sent.
MaxMessages == 3

\* ------------------------------------------------------- board vocabulary
Files == <<"a", "b", "c", "d", "e", "f", "g", "h">>
Ranks == <<"1", "2", "3", "4", "5", "6", "7", "8">>
FileIndex == [c \in {Files[i] : i \in 1..8} |-> CHOOSE i \in 1..8 : Files[i] = c]
RankIndex == [c \in {Ranks[j] : j \in 1..8} |-> CHOOSE j \in 1..8 : Ranks[j] = c]

\* The engine numbers the squares a1 = 1, b1 = 2, ... h8 = 64; 0 is no square.
Squares == 1..64
At(file, rank) == (rank - 1) * 8 + file
FileOf(s) == ((s - 1) % 8) + 1
RankOf(s) == ((s - 1) \div 8) + 1

\* At its interface a square is named by the two characters of its
\* coordinate, file then rank.
Name(s) == <<Files[FileOf(s)], Ranks[RankOf(s)]>>
IsName(str) ==
  /\ Len(str) = 2
  /\ str[1] \in DOMAIN FileIndex
  /\ str[2] \in DOMAIN RankIndex
Square(str) == IF IsName(str) THEN At(FileIndex[str[1]], RankIndex[str[2]]) ELSE 0
NoName == <<"-">>

WhitePieces == {"P", "N", "B", "R", "Q", "K"}
BlackPieces == {"p", "n", "b", "r", "q", "k"}
Empty == "."

ColorOf(pc) == IF pc \in WhitePieces THEN "w" ELSE IF pc \in BlackPieces THEN "b" ELSE "-"

TypeOf(pc) ==
  CASE pc \in {"P", "p"} -> "p"
    [] pc \in {"N", "n"} -> "n"
    [] pc \in {"B", "b"} -> "b"
    [] pc \in {"R", "r"} -> "r"
    [] pc \in {"Q", "q"} -> "q"
    [] pc \in {"K", "k"} -> "k"
    [] OTHER -> "-"

Other(c) == IF c = "w" THEN "b" ELSE "w"

Abs(n) == IF n < 0 THEN -n ELSE n
Sign(n) == IF n < 0 THEN -1 ELSE IF n > 0 THEN 1 ELSE 0
Max(a, b) == IF a > b THEN a ELSE b
Min(a, b) == IF a < b THEN a ELSE b

BackRank == <<"R", "N", "B", "Q", "K", "B", "N", "R">>
BackRankBlack == <<"r", "n", "b", "q", "k", "b", "n", "r">>

InitialBoard ==
  [s \in Squares |->
     CASE RankOf(s) = 1 -> BackRank[FileOf(s)]
       [] RankOf(s) = 2 -> "P"
       [] RankOf(s) = 7 -> "p"
       [] RankOf(s) = 8 -> BackRankBlack[FileOf(s)]
       [] OTHER -> Empty]

\* The engine's position: board, side to move, castling rights, the square
\* behind the pawn that just advanced two ranks, and the two move counters.
DefaultPosition ==
  [board |-> InitialBoard, turn |-> "w", castling |-> {"K", "Q", "k", "q"},
   ep |-> 0, half |-> 0, full |-> 1]

\* --------------------------------------------------------- move generation
\* Squares strictly between f and t on a rank, file or diagonal.
Between(f, t) ==
  LET df == FileOf(t) - FileOf(f)
      dr == RankOf(t) - RankOf(f)
      n == Max(Abs(df), Abs(dr))
  IN {At(FileOf(f) + k * Sign(df), RankOf(f) + k * Sign(dr)) : k \in 1..(n - 1)}

PathClear(p, f, t) == \A s \in Between(f, t) : p.board[s] = Empty

PawnMove(p, f, t) ==
  LET df == FileOf(t) - FileOf(f)
      dr == RankOf(t) - RankOf(f)
      dir == IF p.turn = "w" THEN 1 ELSE -1
      home == IF p.turn = "w" THEN 2 ELSE 7
  IN \/ df = 0 /\ dr = dir /\ p.board[t] = Empty
     \/ df = 0 /\ dr = 2 * dir /\ RankOf(f) = home
        /\ p.board[t] = Empty /\ PathClear(p, f, t)
     \/ Abs(df) = 1 /\ dr = dir
        /\ (ColorOf(p.board[t]) = Other(p.turn) \/ t = p.ep)

PieceMove(p, f, t) ==
  LET df == Abs(FileOf(t) - FileOf(f))
      dr == Abs(RankOf(t) - RankOf(f))
      ty == TypeOf(p.board[f])
  IN CASE ty = "p" -> PawnMove(p, f, t) /\ RankOf(t) \notin {1, 8}
       [] ty = "n" -> {df, dr} = {1, 2}
       [] ty = "b" -> df = dr /\ PathClear(p, f, t)
       [] ty = "r" -> (df = 0 \/ dr = 0) /\ PathClear(p, f, t)
       [] ty = "q" -> (df = dr \/ df = 0 \/ dr = 0) /\ PathClear(p, f, t)
       [] ty = "k" -> Max(df, dr) = 1
       [] OTHER -> FALSE

\* The move f-t is one the engine generates in p.  No position in reach of
\* the bounds has a king attacked or a piece pinned, so the
\* moves the pieces can make are the legal ones; castling and promotion lie
\* beyond the plies the bounds reach.
Legal(p, f, t) ==
  /\ f \in Squares /\ t \in Squares /\ f # t
  /\ ColorOf(p.board[f]) = p.turn
  /\ ColorOf(p.board[t]) # p.turn
  /\ PieceMove(p, f, t)

Movers(p) == {s \in Squares : ColorOf(p.board[s]) = p.turn}
LegalMoves(p) == {m \in Movers(p) \X Squares : Legal(p, m[1], m[2])}

IsCapture(p, f, t) ==
  \/ p.board[t] # Empty
  \/ TypeOf(p.board[f]) = "p" /\ t = p.ep

\* The other pieces of the kind on f that can also move to t.
Rivals(p, f, t) == {o \in Squares \ {f} : p.board[o] = p.board[f] /\ Legal(p, o, t)}

\* What tells the piece on f from its rivals: its file, else its rank, else both.
Disambiguator(f, rivals) ==
  IF rivals = {} THEN << >>
  ELSE IF \A o \in rivals : FileOf(o) # FileOf(f) THEN <<Name(f)[1]>>
  ELSE IF \A o \in rivals : RankOf(o) # RankOf(f) THEN <<Name(f)[2]>>
  ELSE Name(f)

PieceLetter(ty) ==
  CASE ty = "n" -> <<"N">> [] ty = "b" -> <<"B">> [] ty = "r" -> <<"R">>
    [] ty = "q" -> <<"Q">> [] ty = "k" -> <<"K">> [] OTHER -> << >>

\* Standard algebraic notation of the legal move f-t in p, as the sequence of
\* its characters.
San(p, f, t) ==
  IF TypeOf(p.board[f]) = "p"
  THEN (IF IsCapture(p, f, t) THEN <<Name(f)[1], "x">> ELSE << >>) \o Name(t)
  ELSE PieceLetter(TypeOf(p.board[f])) \o Disambiguator(f, Rivals(p, f, t))
       \o (IF IsCapture(p, f, t) THEN <<"x">> ELSE << >>) \o Name(t)

CastlingLost(s) ==
  CASE s = At(5, 1) -> {"K", "Q"}
    [] s = At(8, 1) -> {"K"}
    [] s = At(1, 1) -> {"Q"}
    [] s = At(5, 8) -> {"k", "q"}
    [] s = At(8, 8) -> {"k"}
    [] s = At(1, 8) -> {"q"}
    [] OTHER -> {}

\* The position after the legal move f-t.
Play(p, f, t) ==
  LET pc == p.board[f]
      pawn == TypeOf(pc) = "p"
      enPassant == pawn /\ t = p.ep
      taken == IF enPassant THEN At(FileOf(t), RankOf(f)) ELSE t
      double == pawn /\ Abs(RankOf(t) - RankOf(f)) = 2
  IN [board |-> [p.board EXCEPT ![f] = Empty, ![taken] = Empty, ![t] = pc],
      turn |-> Other(p.turn),
      castling |-> p.castling \ (CastlingLost(f) \cup CastlingLost(t)),
      ep |-> IF double THEN At(FileOf(f), (RankOf(f) + RankOf(t)) \div 2) ELSE 0,
      half |-> IF pawn \/ IsCapture(p, f, t) THEN 0 ELSE p.half + 1,
      full |-> IF p.turn = "b" THEN p.full + 1 ELSE p.full]

\* ------------------------------------------------------------ FEN text
\* A FEN text is held field by field: the placement square by square, the
\* castling field as the sequence of its characters, the en-passant field as
\* the name of its square; an absent castling or en-passant field is "-".
CastlingText(rights) ==
  IF rights = {} THEN <<"-">>
  ELSE SelectSeq(<<"K", "Q", "k", "q">>, LAMBDA c : c \in rights)

\* The en-passant field is printed only when a pawn of the side to move
\* stands beside the pawn that just advanced two ranks.
EpText(p) ==
  IF p.ep = 0 THEN NoName
  ELSE LET r == RankOf(p.ep) + (IF p.turn = "w" THEN -1 ELSE 1)
           beside == {At(i, r) : i \in {FileOf(p.ep) - 1, FileOf(p.ep) + 1} \cap (1..8)}
           mine == IF p.turn = "w" THEN "P" ELSE "p"
       IN IF \E s \in beside : p.board[s] = mine THEN Name(p.ep) ELSE NoName

\* game.fen()
Fen(p) ==
  [board |-> p.board, turn |-> p.turn, castling |-> CastlingText(p.castling),
   ep |-> EpText(p), half |-> p.half, full |-> p.full]

\* The empty string: a text with no fields.
EmptyText ==
  [board |-> [s \in Squares |-> Empty], turn |-> "", castling |-> << >>,
   ep |-> << >>, half |-> 0, full |-> 0]

\* The squares of the first and the last rank.
EdgeSquares == {s \in Squares : RankOf(s) \in {1, 8}}

\* Exactly one king of each colour stands on the board of f.
OneKingEach(f) ==
  LET kings == {s \in Squares : f.board[s] \in {"K", "k"}}
  IN /\ Cardinality(kings) = 2
     /\ \E s \in kings : f.board[s] = "K"
     /\ \E s \in kings : f.board[s] = "k"

\* The engine's validation of a FEN text before it is loaded.
ValidFen(f) ==
  /\ f.turn \in {"w", "b"}
  /\ f.full >= 1 /\ f.half >= 0
  /\ f.castling # << >>
  /\ \/ f.ep = NoName
     \/ IsName(f.ep) /\ f.ep[2] = (IF f.turn = "w" THEN "6" ELSE "3")
  /\ OneKingEach(f)
  /\ \A s \in EdgeSquares : f.board[s] \notin {"P", "p"}

\* The position a valid FEN text denotes.
ParseFen(f) ==
  [board |-> f.board, turn |-> f.turn,
   castling |-> {f.castling[i] : i \in 1..Len(f.castling)} \ {"-"},
   ep |-> Square(f.ep), half |-> f.half, full |-> f.full]

\* ---------------------------------------------------- the engine object
\* A Chess instance: the position and the stack of moves made since the last
\* load or reset, each with the position it was made in.
NewChess == [pos |-> DefaultPosition, history |-> << >>]

\* new Chess(fen): ok is FALSE when the constructor throws.
NewChessFrom(f) ==
  IF ValidFen(f) THEN [ok |-> TRUE, game |-> [pos |-> ParseFen(f), history |-> << >>]]
  ELSE [ok |-> FALSE, game |-> NewChess]

Pushed(g, f, t) ==
  [pos |-> Play(g.pos, f, t),
   history |-> Append(g.history, [san |-> San(g.pos, f, t), before |-> g.pos])]

\* game.move({from, to, promotion}): ok is FALSE when it throws "Invalid move".
\* A promotion piece is matched only against promoting moves, of which the
\* positions in reach have none.
MoveObject(g, from, to, promotion) ==
  IF Legal(g.pos, Square(from), Square(to))
  THEN [ok |-> TRUE, game |-> Pushed(g, Square(from), Square(to))]
  ELSE [ok |-> FALSE, game |-> g]

PushedMove(g, m) == Pushed(g, m[1], m[2])

FirstOf(g, found) ==
  IF found = {} THEN [ok |-> FALSE, game |-> g]
  ELSE [ok |-> TRUE, game |-> PushedMove(g, CHOOSE m \in found : TRUE)]

\* game.move(san): the legal move whose notation is san.
MoveSan(g, san) ==
  FirstOf(g, {m \in LegalMoves(g.pos) : San(g.pos, m[1], m[2]) = san})

\* game.undo(): ok is FALSE when it returns null.
Undo(g) ==
  IF g.history = << >> THEN [ok |-> FALSE, game |-> g]
  ELSE [ok |-> TRUE,
        game |-> [pos |-> g.history[Len(g.history)].before,
                  history |-> SubSeq(g.history, 1, Len(g.history) - 1)]]

\* game.load(fen) keeping the moves made before it.
LoadKeepingHistory(g, f) ==
  IF ValidFen(f) THEN [ok |-> TRUE, game |-> [pos |-> ParseFen(f), history |-> g.history]]
  ELSE [ok |-> FALSE, game |-> g]

\* game.load(fen): validates first, so a rejected text leaves the engine as
\* it was.
Load(g, f) ==
  IF ValidFen(f) THEN [ok |-> TRUE, game |-> [pos |-> ParseFen(f), history |-> << >>]]
  ELSE [ok |-> FALSE, game |-> g]

RECURSIVE PlaySans(_, _)
RECURSIVE PlayRest(_, _)
\* Apply the notations of sans in order, stopping at the first that is not a
\* legal move.
PlaySans(g, sans) ==
  IF sans = << >> THEN [ok |-> TRUE, game |-> g]
  ELSE PlayRest(MoveSan(g, Head(sans)), Tail(sans))

PlayRest(r, rest) ==
  IF r.ok THEN PlaySans(r.game, rest) ELSE [ok |-> FALSE, game |-> r.game]

\* game.loadPgn making the moves on the game as it stands, without the reset.
LoadPgnTextOnTop(g, pgn) == PlaySans(g, pgn)

\* game.loadPgn(pgn), the text held as its sequence of moves: the engine is
\* reset, then the moves are made one by one; an illegal one throws with the
\* moves before it already made.
LoadPgnText(g, pgn) == PlaySans(NewChess, pgn)

\* game.history()
History(g) == [i \in 1..Len(g.history) |-> g.history[i].san]

\* The position the engine was last reset to or loaded with.
Base(g) == IF g.history = << >> THEN g.pos ELSE g.history[1].before

\* game.pgn(): the SetUp and FEN headers, written when the game did not start
\* from the initial position, and the moves made since, in notation.
Pgn(g) ==
  [setup |-> IF Base(g) = DefaultPosition THEN EmptyText ELSE Fen(Base(g)),
   movetext |-> History(g)]

\* game.isGameOver(): without check, mate, stalemate, bare kings or a
\* repeated position in reach, only the fifty-move rule is left.
IsGameOver(g) == g.pos.half >= 100

\* ------------------------------------------------------------ useChessGame
\* setGameState of updateGameState: the React state recomputed from the engine.
updateGameState(g) ==
  [fen |-> Fen(g.pos),
   moveHistory |-> History(g),
   currentMoveIndex |-> Len(g.history) - 1,
   isGameOver |-> IsGameOver(g),
   turn |-> g.pos.turn]

\* The state of useChessGame after construction.
InitialGameState ==
  [fen |-> Fen(NewChess.pos), moveHistory |-> << >>, currentMoveIndex |-> -1,
   isGameOver |-> FALSE, turn |-> "w"]

Undefined == "undefined"

\* The shape makeMove, undoMove, loadFen and loadPgn share: when the engine
\* call r went through, updateGameState and true; when it returned nothing or
\* threw, false with the React state gs left alone.
Settled(r, gs) ==
  IF r.ok
  THEN [game |-> r.game, gameState |-> updateGameState(r.game), ret |-> "true", threw |-> FALSE]
  ELSE [game |-> r.game, gameState |-> gs, ret |-> "false", threw |-> FALSE]

\* Each operation takes the engine g and the pending React state gs and gives
\* the engine and the React state it leaves, with what it returned.
makeMove(g, gs, from, to, promotion) ==
  Settled(MoveObject(g, from, to, IF promotion = Undefined THEN "q" ELSE promotion), gs)

undoMove(g, gs) == Settled(Undo(g), gs)

resetGame(g, gs) ==
  [game |-> NewChess, gameState |-> updateGameState(NewChess), ret |-> Undefined, threw |-> FALSE]

loadFen(g, gs, fen) == Settled(Load(g, fen), gs)

\* loadPgn calling updateGameState whether game.loadPgn threw or not.
loadPgnRefreshing(g, gs, pgn) ==
  [game |-> LoadPgnText(g, pgn).game,
   gameState |-> updateGameState(LoadPgnText(g, pgn).game),
   ret |-> IF LoadPgnText(g, pgn).ok THEN "true" ELSE "false",
   threw |-> FALSE]

loadPgn(g, gs, pgn) == Settled(LoadPgnText(g, pgn), gs)

\* The end of gotoMove, r being the outcome of the replay: setGameState with
\* the replayed position, or the throw of game.move out of the forEach.
Replayed(r, gs, rendered, index) ==
  IF r.ok
  THEN [game |-> r.game,
        gameState |-> [fen |-> Fen(r.game.pos),
                       moveHistory |-> rendered.moveHistory,
                       currentMoveIndex |-> index,
                       isGameOver |-> IsGameOver(r.game),
                       turn |-> r.game.pos.turn],
        ret |-> Undefined, threw |-> FALSE]
  ELSE [game |-> r.game, gameState |-> gs, ret |-> Undefined, threw |-> TRUE]

\* gotoMove ending in updateGameState, as the other operations do: the moves
\* after index are dropped from moveHistory.
gotoMoveTruncating(g, gs, rendered, index) ==
  IF index < -1 \/ index >= Len(rendered.moveHistory)
  THEN [game |-> g, gameState |-> gs, ret |-> Undefined, threw |-> FALSE]
  ELSE [Settled(PlaySans(NewChess, SubSeq(rendered.moveHistory, 1, index + 1)), gs)
          EXCEPT !.ret = Undefined]

\* gotoMove checking its range only after game.reset().
gotoMoveResetting(g, gs, rendered, index) ==
  IF index < -1 \/ index >= Len(rendered.moveHistory)
  THEN [game |-> NewChess, gameState |-> gs, ret |-> Undefined, threw |-> FALSE]
  ELSE Replayed(PlaySans(NewChess, SubSeq(rendered.moveHistory, 1, index + 1)),
                gs, rendered, index)

\* gotoMove without its range check.
gotoMoveUnguarded(g, gs, rendered, index) ==
  Replayed(PlaySans(NewChess,
                    SubSeq(rendered.moveHistory, 1,
                           Max(0, Min(index + 1, Len(rendered.moveHistory))))),
           gs, rendered, index)

\* gotoMove reads moveHistory from `rendered`, the gameState of the render the
\* callback closed over.  The replay is not guarded: a notation that is not a
\* legal move throws out of gotoMove with the engine reset and the moves
\* before it replayed, and no setGameState.
gotoMove(g, gs, rendered, index) ==
  IF index < -1 \/ index >= Len(rendered.moveHistory)
  THEN [game |-> g, gameState |-> gs, ret |-> Undefined, threw |-> FALSE]
  ELSE Replayed(PlaySans(NewChess, SubSeq(rendered.moveHistory, 1, index + 1)),
                gs, rendered, index)

getPgn(g) == Pgn(g)

\* ----------------------------------------------------------- useExploration
\* A suggested line is held by its moves; null is the line that is none.
NullLine == [null |-> TRUE]

InactiveExploration ==
  [isActive |-> FALSE, currentLine |-> NullLine, currentPosition |-> 0,
   savedFen |-> EmptyText, savedMoveIndex |-> -1, savedMoveHistory |-> << >>]

enterExploration(line, currentFen, currentMoveIndex, moveHistory) ==
  [isActive |-> TRUE, currentLine |-> line, currentPosition |-> 0,
   savedFen |-> currentFen, savedMoveIndex |-> currentMoveIndex,
   savedMoveHistory |-> moveHistory]

\* exitExploration leaving the explored line in place.
exitExplorationKeepingLine(ex) ==
  [saved |-> [fen |-> ex.savedFen, moveIndex |-> ex.savedMoveIndex,
              moveHistory |-> ex.savedMoveHistory],
   explorationState |-> [InactiveExploration EXCEPT !.currentLine = ex.currentLine]]

exitExploration(ex) ==
  [saved |-> [fen |-> ex.savedFen, moveIndex |-> ex.savedMoveIndex,
              moveHistory |-> ex.savedMoveHistory],
   explorationState |-> InactiveExploration]

\* prev.currentLine?.moves.length || d
MovesLengthOr(line, d) ==
  IF line = NullLine THEN d ELSE IF Len(line.moves) = 0 THEN d ELSE Len(line.moves)

\* nextPosition without Math.min.
nextPositionUnclamped(prev) ==
  [prev EXCEPT !.currentPosition = prev.currentPosition + 1]

nextPosition(prev) ==
  [prev EXCEPT !.currentPosition =
     Min(prev.currentPosition + 1, MovesLengthOr(prev.currentLine, 1) - 1)]

\* previousPosition stepping the saved index back with the position.
previousPositionRewinding(prev) ==
  [prev EXCEPT !.currentPosition = Max(prev.currentPosition - 1, 0),
               !.savedMoveIndex = Max(prev.savedMoveIndex - 1, -1)]

previousPosition(prev) ==
  [prev EXCEPT !.currentPosition = Max(prev.currentPosition - 1, 0)]

\* ------------------------------------------------------------- useGameState
\* String.prototype.substring(a, b) on a sequence of characters.
Substring(str, a, b) == SubSeq(str, Min(a, Len(str)) + 1, Min(b, Len(str)))

\* One step of the replay loops: the coordinate move is cut into from, to and
\* promotion and tried on the scratch engine; a throw is caught and logged.
TryMove(tempGame, moveUci) ==
  MoveObject(tempGame,
             Substring(moveUci, 0, 2),
             Substring(moveUci, 2, 4),
             IF Len(moveUci) > 4 THEN moveUci[5] ELSE Undefined).game

RECURSIVE ReplayLine(_, _)
ReplayLine(tempGame, moves) ==
  IF moves = << >> THEN tempGame
  ELSE ReplayLine(TryMove(tempGame, Head(moves)), Tail(moves))

WithExploration(r, ex) ==
  [game |-> r.game, gameState |-> r.gameState, explorationState |-> ex,
   ret |-> r.ret, threw |-> r.threw]

Untouched(g, gs, ex, ret) ==
  [game |-> g, gameState |-> gs, explorationState |-> ex, ret |-> ret, threw |-> FALSE]

\* The tail the three callbacks that show a position of a line share: temp is
\* the scratch engine built from a FEN, moves are replayed on it and the
\* result is loaded into the game; moved is the queued exploration state.
\* When the scratch engine could not be built the callback throws there.
ShowLine(g, gs, moved, temp, moves) ==
  IF temp.ok
  THEN [WithExploration(loadFen(g, gs, Fen(ReplayLine(temp.game, moves).pos)), moved)
          EXCEPT !.ret = Undefined]
  ELSE [game |-> g, gameState |-> gs, explorationState |-> moved,
        ret |-> Undefined, threw |-> TRUE]

\* The coordinator callbacks read gs and ex, the state of the render they
\* closed over, and give the engine and the two React states they leave.
handleExplore(g, gs, ex, line) ==
  ShowLine(g, gs,
           enterExploration(line, gs.fen, gs.currentMoveIndex, gs.moveHistory),
           NewChessFrom(gs.fen),
           line.moves)

handleExplorationNext(g, gs, ex) ==
  IF ex.currentLine = NullLine THEN Untouched(g, gs, ex, Undefined)
  ELSE IF ex.currentPosition + 1 >= Len(ex.currentLine.moves)
  THEN Untouched(g, gs, ex, Undefined)
  ELSE ShowLine(g, gs, nextPosition(ex), NewChessFrom(ex.savedFen),
                SubSeq(ex.currentLine.moves, 1, ex.currentPosition + 2))

\* handleExplorationPrevious without its test of currentPosition <= 0.
handleExplorationPreviousUnguarded(g, gs, ex) ==
  IF ex.currentLine = NullLine THEN Untouched(g, gs, ex, Undefined)
  ELSE ShowLine(g, gs, previousPosition(ex), NewChessFrom(ex.savedFen),
                SubSeq(ex.currentLine.moves, 1, ex.currentPosition))

\* handleExplorationPrevious replaying on the position shown instead of
\* savedFen.
handleExplorationPreviousFromShown(g, gs, ex) ==
  IF ex.currentLine = NullLine THEN Untouched(g, gs, ex, Undefined)
  ELSE IF ex.currentPosition <= 0 THEN Untouched(g, gs, ex, Undefined)
  ELSE ShowLine(g, gs, previousPosition(ex), NewChessFrom(gs.fen),
                SubSeq(ex.currentLine.moves, 1, ex.currentPosition))

handleExplorationPrevious(g, gs, ex) ==
  IF ex.currentLine = NullLine THEN Untouched(g, gs, ex, Undefined)
  ELSE IF ex.currentPosition <= 0 THEN Untouched(g, gs, ex, Undefined)
  ELSE ShowLine(g, gs, previousPosition(ex), NewChessFrom(ex.savedFen),
                SubSeq(ex.currentLine.moves, 1, ex.currentPosition))

\* The two calls of handleExitExploration on the game: loadFen(saved.fen),
\* then gotoMove(saved.moveIndex), which still reads the moveHistory of gs.
Restore(loaded, gs, saved) == gotoMove(loaded.game, loaded.gameState, gs, saved.moveIndex)

Restored(g, gs, left) ==
  WithExploration(Restore(loadFen(g, gs, left.saved.fen), gs, left.saved),
                  left.explorationState)

handleExitExploration(g, gs, ex) == Restored(g, gs, exitExploration(ex))

\* ----------------------------------------------------------------- GamePage
\* handleMove without its isActive check.
handleMoveUnguarded(g, gs, ex, from, to) ==
  WithExploration(makeMove(g, gs, from, to, Undefined), ex)

handleMove(g, gs, ex, from, to) ==
  IF ex.isActive THEN Untouched(g, gs, ex, "false")
  ELSE WithExploration(makeMove(g, gs, from, to, Undefined), ex)

\* confirmed is the answer to window.confirm.
handleNewGame(g, gs, ex, confirmed) ==
  IF ex.isActive THEN Untouched(g, gs, ex, Undefined)
  ELSE IF Len(gs.moveHistory) > 0 /\ ~confirmed THEN Untouched(g, gs, ex, Undefined)
  ELSE WithExploration(resetGame(g, gs), ex)

handleUndo(g, gs, ex) ==
  IF ex.isActive THEN Untouched(g, gs, ex, Undefined)
  ELSE [WithExploration(undoMove(g, gs), ex) EXCEPT !.ret = Undefined]

handleResign(g, gs, ex) == Untouched(g, gs, ex, Undefined)

handleMoveClick(g, gs, ex, index) ==
  IF ex.isActive THEN Untouched(g, gs, ex, Undefined)
  ELSE WithExploration(gotoMove(g, gs, gs, index), ex)

\* ChessBoard.onDrop
onDrop(g, gs, ex, disabled, sourceSquare, targetSquare) ==
  IF disabled THEN Untouched(g, gs, ex, "false")
  ELSE handleMove(g, gs, ex, sourceSquare, targetSquare)

\* ---------------------------------------------------------------- CoachChat
\* The characters String.prototype.trim() strips: the WhiteSpace and
\* LineTerminator of ECMAScript that a string of this module can hold, which
\* are space, tab, line feed, carriage return, form feed, vertical tab
\* (U+000B), no-break space (U+00A0), U+FEFF and U+1680. The others, U+2000
\* to U+200A, U+2028, U+2029, U+202F, U+205F and U+3000, are stripped by the
\* code as well.
WhiteSpace == {" ", "\t", "\n", "\r", "\f", "", " ", "﻿", " "}

\* String.prototype.trim() on a sequence of characters.
RECURSIVE TrimStart(_)
TrimStart(str) ==
  IF str = << >> THEN str
  ELSE IF Head(str) \in WhiteSpace THEN TrimStart(Tail(str)) ELSE str

RECURSIVE TrimEnd(_)
TrimEnd(str) ==
  IF str = << >> THEN str
  ELSE IF str[Len(str)] \in WhiteSpace THEN TrimEnd(SubSeq(str, 1, Len(str) - 1)) ELSE str

Trim(str) == TrimEnd(TrimStart(str))

\* The state of CoachChat after construction, with the requests of
\* apiClient.coachChat that are awaited.
InitialChat ==
  [messages |-> << >>, input |-> << >>, loading |-> FALSE, pending |-> << >>]

\* A message of the list; hasLines tells whether its lines field is set.
UserMessage(content) ==
  [role |-> "user", content |-> content, hasLines |-> FALSE, lines |-> << >>]

CoachMessage(content) ==
  [role |-> "coach", content |-> content, hasLines |-> FALSE, lines |-> << >>]

CoachLines(content, lines) ==
  [role |-> "coach", content |-> content, hasLines |-> TRUE, lines |-> lines]

ConfigureText == "Please configure your LLM API key in Settings first."
SorryText == "Sorry, I encountered an error. Please try again."

\* handleSend without its test of loading.
handleSendUnguarded(chat, fen, moveHistory, apiKey) ==
  IF Trim(chat.input) = << >> THEN chat
  ELSE IF apiKey = << >>
  THEN [chat EXCEPT !.input = << >>,
                    !.messages = chat.messages
                                   \o <<[role |-> "user", content |-> Trim(chat.input),
                                          hasLines |-> FALSE, lines |-> << >>],
                                        [role |-> "coach",
                                         content |-> "Please configure your LLM API key in Settings first.",
                                         hasLines |-> FALSE, lines |-> << >>]>>,
                    !.loading = FALSE]
  ELSE [chat EXCEPT !.input = << >>,
                    !.messages = Append(chat.messages,
                                        [role |-> "user", content |-> Trim(chat.input),
                                         hasLines |-> FALSE, lines |-> << >>]),
                    !.loading = TRUE,
                    !.pending = Append(chat.pending,
                                       [message |-> Trim(chat.input), fen |-> fen,
                                        moveHistory |-> moveHistory])]

\* handleSend up to its await, with the fen and moveHistory props of the
\* render and the key read from localStorage: the chat it leaves.
handleSend(chat, fen, moveHistory, apiKey) ==
  IF Trim(chat.input) = << >> \/ chat.loading THEN chat
  ELSE IF apiKey = << >>
  THEN [chat EXCEPT !.input = << >>,
                    !.messages = chat.messages
                                   \o <<UserMessage(Trim(chat.input)),
                                        CoachMessage(ConfigureText)>>,
                    !.loading = FALSE]
  ELSE [chat EXCEPT !.input = << >>,
                    !.messages = Append(chat.messages, UserMessage(Trim(chat.input))),
                    !.loading = TRUE,
                    !.pending = Append(chat.pending,
                                       [message |-> Trim(chat.input), fen |-> fen,
                                        moveHistory |-> moveHistory])]

\* handleSend after its await: the request first sent resolves with response.
coachResponse(chat, response) ==
  [chat EXCEPT !.messages =
                 Append(chat.messages,
                        IF response.response_type = "lines" /\ response.hasLines
                        THEN CoachLines(response.content, response.lines)
                        ELSE CoachMessage(response.content)),
               !.loading = FALSE,
               !.pending = Tail(chat.pending)]

\* handleSend without its finally: a rejected request leaves loading set.
coachFailureStillLoading(chat) ==
  [chat EXCEPT !.messages = Append(chat.messages,
                                   [role |-> "coach",
                                    content |-> "Sorry, I encountered an error. Please try again.",
                                    hasLines |-> FALSE, lines |-> << >>]),
               !.pending = Tail(chat.pending)]

\* handleSend after its await: the request first sent is rejected.
coachFailure(chat) ==
  [chat EXCEPT !.messages = Append(chat.messages, CoachMessage(SorryText)),
               !.loading = FALSE,
               !.pending = Tail(chat.pending)]

\* The disabled attribute of the input and of the Send button.
InputDisabled(disabled, chat) == disabled \/ chat.loading

\* The Send button disabled without regard to the disabled prop.
SendDisabledByChatOnly(disabled, chat) == chat.loading \/ Trim(chat.input) = << >>

SendDisabled(disabled, chat) == disabled \/ chat.loading \/ Trim(chat.input) = << >>

\* The lines of the cards the message list shows.
ShownLines(chat) ==
  UNION {{chat.messages[i].lines[j] : j \in 1..Len(chat.messages[i].lines)} :
           i \in {k \in 1..Len(chat.messages) : chat.messages[k].hasLines}}

\* LineCard throws while it renders: formatMoves reads the length of
\* moves_san, a TypeError when the line has none, and in its loop reads
\* whiteMove, a name never declared (the constant is whitMove), a
\* ReferenceError as soon as moves_san holds a move.
LineCardThrows(line) == ~line.hasMovesSan \/ line.moves_san # << >>

\* ------------------------------------------------------------------ inputs
\* Coordinate moves a suggested line may hold: an opening move of each side
\* and a token that names no square.
LineTokens == {<<"e", "2", "e", "4">>, <<"e", "7", "e", "5">>, <<"z", "z", "z", "z">>}

\* The lines a card is shown for: LineCard renders a line only when its
\* moves_san is there and empty (LineCardThrows).
Lines ==
  {[moves |-> m, hasMovesSan |-> TRUE, moves_san |-> << >>] :
     m \in UNION {[1..n -> LineTokens] : n \in 0..MaxLineLen}}

\* Piece drops on the board, as <<from, to>>: opening moves of both sides
\* and a pawn advance of three ranks.
Drops ==
  {<<<<"e", "2">>, <<"e", "4">>>>, <<<<"e", "7">>, <<"e", "5">>>>,
   <<<<"g", "1">>, <<"f", "3">>>>, <<<<"e", "2">>, <<"e", "5">>>>}

\* Plies played to reach p, by its move counter.
Plies(p) == 2 * (p.full - 1) + (IF p.turn = "b" THEN 1 ELSE 0)

SanE4 == <<"e", "4">>
SanE5 == <<"e", "5">>

\* Texts handed to loadFen and loadPgn by a caller of the hook.
FenInputs == {EmptyText, Fen(DefaultPosition), Fen(Play(DefaultPosition, At(5, 2), At(5, 4)))}
PgnInputs == {<< >>, <<SanE4, SanE5>>, <<SanE4, SanE4>>}

\* What the user types into the chat, the keys localStorage may hold and the
\* answers of the coach: a text, an answer of type lines without lines, one
\* line without moves, and one line e2e4 with no SAN to display, with its
\* SAN, and with no moves_san at all.
Typed == {<< >>, <<" ", "\t">>, <<"\n", "h", "i", " ">>}
ApiKeys == {<< >>, <<"k">>}
Responses ==
  {[response_type |-> "text", content |-> "advice", hasLines |-> FALSE, lines |-> << >>],
   [response_type |-> "lines", content |-> "try", hasLines |-> FALSE, lines |-> << >>],
   [response_type |-> "lines", content |-> "try", hasLines |-> TRUE,
    lines |-> <<[moves |-> << >>, hasMovesSan |-> TRUE, moves_san |-> << >>]>>],
   [response_type |-> "lines", content |-> "try", hasLines |-> TRUE,
    lines |-> <<[moves |-> <<<<"e", "2", "e", "4">>>>,
                 hasMovesSan |-> TRUE, moves_san |-> << >>]>>],
   [response_type |-> "lines", content |-> "try", hasLines |-> TRUE,
    lines |-> <<[moves |-> <<<<"e", "2", "e", "4">>>>,
                 hasMovesSan |-> TRUE, moves_san |-> <<SanE4>>]>>],
   [response_type |-> "lines", content |-> "try", hasLines |-> TRUE,
    lines |-> <<[moves |-> <<<<"e", "2", "e", "4">>>>,
                 hasMovesSan |-> FALSE, moves_san |-> << >>]>>]}

\* ------------------------------------------------------------------- state
VARIABLES
  game,              \* the Chess instance of useChessGame
  gameState,         \* the React state of useChessGame
  explorationState,  \* the React state of useExploration
  ev,                \* the last call: its name and outcome
  entry,             \* the arguments of the enterExploration of the open exploration
  chat               \* the React state of CoachChat and its awaited requests

vars == <<game, gameState, explorationState, ev, entry, chat>>

\* The page is on the screen: no card of the message list threw while it
\* rendered.  GamePage has no error boundary, so a throw of LineCard
\* unmounts the page, board and controls included.
PageMounted == \A line \in ShownLines(chat) : ~LineCardThrows(line)

NoSaved == [fen |-> EmptyText, moveIndex |-> -1, moveHistory |-> << >>]

NoEntry ==
  [fen |-> EmptyText, moveIndex |-> -1, moveHistory |-> << >>,
   open |-> FALSE, nested |-> FALSE]

Event(op, r) == [op |-> op, ret |-> r.ret, threw |-> r.threw, saved |-> NoSaved]

Init ==
  /\ game = NewChess
  /\ gameState = InitialGameState
  /\ explorationState = InactiveExploration
  /\ ev = [op |-> "init", ret |-> Undefined, threw |-> FALSE, saved |-> NoSaved]
  /\ entry = NoEntry
  /\ chat = InitialChat

\* The state a coordinator or page handler leaves.
Commit(op, r) ==
  /\ game' = r.game
  /\ gameState' = r.gameState
  /\ explorationState' = r.explorationState
  /\ ev' = Event(op, r)
  /\ UNCHANGED chat

\* The state an operation of useChessGame leaves.
CommitGame(op, r) ==
  /\ game' = r.game
  /\ gameState' = r.gameState
  /\ ev' = Event(op, r)
  /\ UNCHANGED <<explorationState, chat>>

Entered(fen, moveIndex, moveHistory) ==
  [fen |-> fen, moveIndex |-> moveIndex, moveHistory |-> moveHistory,
   open |-> TRUE, nested |-> entry.open]

\* ------------------------------------------------- the page, event by event
\* A piece dropped from m[1] on m[2] of the board.
DropPieceOf(m) ==
  /\ PageMounted
  /\ Plies(game.pos) < MaxPly
  /\ Commit("handleMove",
            onDrop(game, gameState, explorationState, explorationState.isActive, m[1], m[2]))
  /\ UNCHANGED entry

DropPiece == \E m \in Drops : DropPieceOf(m)

\* GameControls is rendered only while no exploration is active.
ClickNewGame ==
  \E confirmed \in BOOLEAN :
    /\ PageMounted
    /\ ~explorationState.isActive
    /\ Commit("handleNewGame", handleNewGame(game, gameState, explorationState, confirmed))
    /\ UNCHANGED entry

\* The Undo button is disabled unless canUndo.
ClickUndo ==
  /\ PageMounted
  /\ ~explorationState.isActive
  /\ gameState.currentMoveIndex >= 0
  /\ Commit("handleUndo", handleUndo(game, gameState, explorationState))
  /\ UNCHANGED entry

ClickResign ==
  /\ PageMounted
  /\ ~explorationState.isActive
  /\ Commit("handleResign", handleResign(game, gameState, explorationState))
  /\ UNCHANGED entry

\* MoveHistory renders one button per move of gameState.moveHistory.
ClickMoveOf(index) ==
  /\ PageMounted
  /\ index \in 0..(Len(gameState.moveHistory) - 1)
  /\ Commit("handleMoveClick", handleMoveClick(game, gameState, explorationState, index))
  /\ UNCHANGED entry

ClickMove == \E index \in 0..MaxPly : ClickMoveOf(index)

\* handleExplore called with a line, as the click of the line's card does;
\* the card stays clickable while exploring.
ClickExploreOf(line) ==
  /\ Commit("handleExplore", handleExplore(game, gameState, explorationState, line))
  /\ entry' = Entered(gameState.fen, gameState.currentMoveIndex, gameState.moveHistory)

\* A click on a line card, which is there when LineCard rendered it.
ClickExplore ==
  /\ PageMounted
  /\ \E line \in Lines : ~LineCardThrows(line) /\ ClickExploreOf(line)

\* ExplorationControls is rendered only while an exploration is active; its
\* Next and Previous buttons are disabled by canGoNext and canGoPrevious.
ClickNext ==
  /\ PageMounted
  /\ explorationState.isActive
  /\ explorationState.currentPosition < MovesLengthOr(explorationState.currentLine, 0) - 1
  /\ Commit("handleExplorationNext",
            handleExplorationNext(game, gameState, explorationState))
  /\ UNCHANGED entry

ClickPrevious ==
  /\ PageMounted
  /\ explorationState.isActive
  /\ explorationState.currentPosition > 0
  /\ Commit("handleExplorationPrevious",
            handleExplorationPrevious(game, gameState, explorationState))
  /\ UNCHANGED entry

ClickExit ==
  /\ PageMounted
  /\ explorationState.isActive
  /\ Commit("handleExitExploration",
            handleExitExploration(game, gameState, explorationState))
  /\ entry' = NoEntry

Next ==
  \/ DropPiece
  \/ ClickNewGame
  \/ ClickUndo
  \/ ClickResign
  \/ ClickMove
  \/ ClickExplore
  \/ ClickNext
  \/ ClickPrevious
  \/ ClickExit

Spec == Init /\ [][Next]_vars

\* --------------------------------------------- useChessGame on its own
\* The operations of useChessGame, called by a caller of the hook in any
\* order.
Indexes == -2..MaxPly

CallMakeMoveOf(m) ==
  /\ Plies(game.pos) < MaxPly
  /\ CommitGame("makeMove", makeMove(game, gameState, m[1], m[2], Undefined))
  /\ UNCHANGED entry

CallMakeMove == \E m \in Drops : CallMakeMoveOf(m)

CallUndoMove ==
  /\ CommitGame("undoMove", undoMove(game, gameState))
  /\ UNCHANGED entry

CallResetGame ==
  /\ CommitGame("resetGame", resetGame(game, gameState))
  /\ UNCHANGED entry

CallLoadFenOf(fen) ==
  /\ CommitGame("loadFen", loadFen(game, gameState, fen))
  /\ UNCHANGED entry

CallLoadFen == \E fen \in FenInputs : CallLoadFenOf(fen)

CallLoadPgnOf(pgn) ==
  /\ CommitGame("loadPgn", loadPgn(game, gameState, pgn))
  /\ UNCHANGED entry

CallLoadPgn == \E pgn \in PgnInputs : CallLoadPgnOf(pgn)

CallGotoMoveOf(index) ==
  /\ CommitGame("gotoMove", gotoMove(game, gameState, gameState, index))
  /\ UNCHANGED entry

CallGotoMove == \E index \in Indexes : CallGotoMoveOf(index)

NextGame ==
  \/ CallMakeMove
  \/ CallUndoMove
  \/ CallResetGame
  \/ CallLoadFen
  \/ CallLoadPgn
  \/ CallGotoMove

SpecGame == Init /\ [][NextGame]_vars

\* ------------------------------------- the hooks, called in any order
\* The four coordinator callbacks and the handlers of GamePage, called
\* whatever the page currently renders, with the loadFen and loadPgn of a
\* caller of the hook.
\* The lines explored here: the empty line, the opening move, and the two
\* opening moves.
HookLines ==
  {[moves |-> m, hasMovesSan |-> TRUE, moves_san |-> << >>] :
     m \in {<< >>, <<<<"e", "2", "e", "4">>>>,
            <<<<"e", "2", "e", "4">>, <<"e", "7", "e", "5">>>>}}

\* The drops made here: the two opening moves and the pawn advance of three
\* ranks.
HookDrops ==
  {<<<<"e", "2">>, <<"e", "4">>>>, <<<<"e", "7">>, <<"e", "5">>>>,
   <<<<"e", "2">>, <<"e", "5">>>>}

CallHandleExplore == \E line \in HookLines : ClickExploreOf(line)

CallHandleExplorationNext ==
  /\ Commit("handleExplorationNext",
            handleExplorationNext(game, gameState, explorationState))
  /\ UNCHANGED entry

CallHandleExplorationPrevious ==
  /\ Commit("handleExplorationPrevious",
            handleExplorationPrevious(game, gameState, explorationState))
  /\ UNCHANGED entry

CallHandleExitExploration ==
  /\ Commit("handleExitExploration",
            handleExitExploration(game, gameState, explorationState))
  /\ entry' = NoEntry

CallHandleMoveOf(m) ==
  /\ Plies(game.pos) < MaxPly
  /\ Commit("handleMove", handleMove(game, gameState, explorationState, m[1], m[2]))
  /\ UNCHANGED entry

CallHandleMove == \E m \in HookDrops : CallHandleMoveOf(m)

CallHandleNewGame ==
  \E confirmed \in BOOLEAN :
    /\ Commit("handleNewGame", handleNewGame(game, gameState, explorationState, confirmed))
    /\ UNCHANGED entry

CallHandleUndo ==
  /\ Commit("handleUndo", handleUndo(game, gameState, explorationState))
  /\ UNCHANGED entry

CallHandleResign ==
  /\ Commit("handleResign", handleResign(game, gameState, explorationState))
  /\ UNCHANGED entry

CallHandleMoveClickOf(index) ==
  /\ Commit("handleMoveClick", handleMoveClick(game, gameState, explorationState, index))
  /\ UNCHANGED entry

CallHandleMoveClick == \E index \in Indexes : CallHandleMoveClickOf(index)

NextHooks ==
  \/ CallLoadFen
  \/ CallLoadPgn
  \/ CallHandleExplore
  \/ CallHandleExplorationNext
  \/ CallHandleExplorationPrevious
  \/ CallHandleExitExploration
  \/ CallHandleMove
  \/ CallHandleNewGame
  \/ CallHandleUndo
  \/ CallHandleResign
  \/ CallHandleMoveClick

SpecHooks == Init /\ [][NextHooks]_vars

\* ------------------------------------------- useExploration on its own
\* Snapshots a caller may hand to enterExploration: that of a new game, that
\* of a game one move in, and one whose position is the empty text.
Snapshots ==
  {[fen |-> Fen(DefaultPosition), moveIndex |-> -1, moveHistory |-> << >>],
   [fen |-> Fen(Play(DefaultPosition, At(5, 2), At(5, 4))), moveIndex |-> 0,
    moveHistory |-> <<SanE4>>],
   [fen |-> EmptyText, moveIndex |-> 1, moveHistory |-> <<SanE4, SanE5>>]}

CommitExploration(op, ex, saved) ==
  /\ explorationState' = ex
  /\ ev' = [op |-> op, ret |-> Undefined, threw |-> FALSE, saved |-> saved]
  /\ UNCHANGED <<game, gameState, chat>>

CallEnterExplorationOf(line, snap) ==
  /\ CommitExploration("enterExploration",
                       enterExploration(line, snap.fen, snap.moveIndex, snap.moveHistory),
                       NoSaved)
  /\ entry' = Entered(snap.fen, snap.moveIndex, snap.moveHistory)

CallEnterExploration ==
  \E line \in Lines, snap \in Snapshots : CallEnterExplorationOf(line, snap)

CallExitExploration ==
  /\ CommitExploration("exitExploration",
                       exitExploration(explorationState).explorationState,
                       exitExploration(explorationState).saved)
  /\ entry' = NoEntry

CallNextPosition ==
  /\ CommitExploration("nextPosition", nextPosition(explorationState), NoSaved)
  /\ UNCHANGED entry

CallPreviousPosition ==
  /\ CommitExploration("previousPosition", previousPosition(explorationState), NoSaved)
  /\ UNCHANGED entry

NextExploration ==
  \/ CallEnterExploration
  \/ CallExitExploration
  \/ CallNextPosition
  \/ CallPreviousPosition

SpecExploration == Init /\ [][NextExploration]_vars

\* ----------------------------------------------- the page with its chat
\* The state a step of CoachChat leaves.
CommitChat(op, c) ==
  /\ chat' = c
  /\ ev' = [op |-> op, ret |-> Undefined, threw |-> FALSE, saved |-> NoSaved]
  /\ UNCHANGED <<game, gameState, explorationState, entry>>

\* CoachChat is given disabled = explorationState.isActive.
TypeInputOf(text) ==
  /\ PageMounted
  /\ ~InputDisabled(explorationState.isActive, chat)
  /\ CommitChat("setInput", [chat EXCEPT !.input = text])

TypeInput == \E text \in Typed : TypeInputOf(text)

ClickSend ==
  \E apiKey \in ApiKeys :
    /\ PageMounted
    /\ ~SendDisabled(explorationState.isActive, chat)
    /\ Len(chat.messages) < MaxMessages
    /\ CommitChat("handleSend",
                  handleSend(chat, gameState.fen, gameState.moveHistory, apiKey))

\* Enter in the input, which takes keys only while it is not disabled.
PressEnter ==
  \E apiKey \in ApiKeys :
    /\ PageMounted
    /\ ~InputDisabled(explorationState.isActive, chat)
    /\ Len(chat.messages) < MaxMessages
    /\ CommitChat("handleSend",
                  handleSend(chat, gameState.fen, gameState.moveHistory, apiKey))

CoachAnswersOf(response) ==
  /\ chat.pending # << >>
  /\ CommitChat("coachResponse", coachResponse(chat, response))

CoachAnswers == \E response \in Responses : CoachAnswersOf(response)

CoachFails ==
  /\ chat.pending # << >>
  /\ CommitChat("coachFailure", coachFailure(chat))

\* A card of a line the coach suggested.
ClickCard == PageMounted /\ \E line \in ShownLines(chat) : ClickExploreOf(line)

NextChat ==
  \/ TypeInput
  \/ ClickSend
  \/ PressEnter
  \/ CoachAnswers
  \/ CoachFails
  \/ ClickCard
  \/ ClickExit
  \/ DropPiece
  \/ ClickNewGame

SpecChat == Init /\ [][NextChat]_vars

\* ------------------------------------------------- CoachChat on its own
\* setInput and handleSend called whatever the chat renders, between moves
\* on the board that change the fen and moveHistory it is given.
CallSetInputOf(text) ==
  /\ PageMounted
  /\ text \in Typed
  /\ CommitChat("setInput", [chat EXCEPT !.input = text])

CallSetInput == \E text \in Typed : CallSetInputOf(text)

CallHandleSendOf(apiKey) ==
  /\ PageMounted
  /\ Len(chat.messages) < MaxMessages
  /\ CommitChat("handleSend",
                handleSend(chat, gameState.fen, gameState.moveHistory, apiKey))

CallHandleSend == \E apiKey \in ApiKeys : CallHandleSendOf(apiKey)

NextChatHooks ==
  \/ CallSetInput
  \/ CallHandleSend
  \/ CoachAnswers
  \/ CoachFails
  \/ DropPiece

SpecChatHooks == Init /\ [][NextChatHooks]_vars

\* The same calls, with every coachChat request that is awaited resolved or
\* rejected in the end.
SpecChatLive ==
  Init /\ [][NextChatHooks]_vars /\ WF_vars(CoachAnswers \/ CoachFails)

\* ------------------------------------------------------------ the claims
\* The position the FEN text of gameState denotes.
Shown(gs) == NewChessFrom(gs.fen).game

\* The moves of moveHistory are legal one after the other from the initial
\* position, as those of a game built by makeMove from a new game are.
Replayable == PlaySans(NewChess, gameState.moveHistory).ok

PageOps == {"handleMove", "handleUndo", "handleNewGame", "handleMoveClick", "handleResign"}

\* C1: entering an exploration and leaving it again, with any Next and
\* Previous in between, gives the game back the fen, the currentMoveIndex
\* and the moveHistory it had when the exploration was entered.
C1_ExitRestoresGame ==
  [][(ev'.op = "handleExitExploration" /\ entry.open /\ ~entry.nested)
       => /\ gameState'.fen = entry.fen
          /\ gameState'.currentMoveIndex = entry.moveIndex
          /\ gameState'.moveHistory = entry.moveHistory]_vars

\* C2: while an exploration is active, handleMove, handleUndo, handleNewGame,
\* handleMoveClick and handleResign do nothing: the engine, the game state
\* and the exploration are as they were, and nothing is thrown.
C2_HandlersIdleWhileExploring ==
  [][(explorationState.isActive /\ ev'.op \in PageOps)
       => /\ game' = game
          /\ gameState' = gameState
          /\ explorationState' = explorationState
          /\ ~ev'.threw]_vars

\* A move was dropped during an exploration and refused.
C2_DropRefused ==
  /\ explorationState.isActive
  /\ ev.op = "handleMove"
  /\ ev.ret = "false"
  /\ Plies(game.pos) = 1

\* C3: when a move of the explored line is illegal where it is tried, the
\* position shown is the one after the moves before it, no later move is
\* applied, and nothing is thrown.
C3_LineStopsAtIllegalMove ==
  [][\A line \in Lines :
       (/\ ev'.op = "handleExplore"
        /\ ~explorationState.isActive
        /\ explorationState'.currentLine = line
        /\ ClickExploreOf(line))
         => \A i \in 1..Len(line.moves) :
              LET got == ReplayLine(Shown(gameState), SubSeq(line.moves, 1, i - 1))
              IN  (/\ Len(got.history) = i - 1
                   /\ TryMove(got, line.moves[i]) = got)
                    => gameState'.fen = Fen(got.pos) /\ ~ev'.threw]_vars

\* C4 as stated: currentPosition stays within 0..(number of moves - 1) of the
\* explored line, for a line of one move and for a line of no move too.
C4_PositionWithinMoves ==
  explorationState.isActive
    => explorationState.currentPosition \in 0..(Len(explorationState.currentLine.moves) - 1)

\* C4: currentPosition stays within 0..max(number of moves - 1, 0) of the
\* explored line: it is 0 for a line of no move, and 0 when no line is
\* explored.
C4_PositionWithinLine ==
  IF explorationState.currentLine = NullLine
  THEN explorationState.currentPosition = 0
  ELSE explorationState.currentPosition
         \in 0..Max(Len(explorationState.currentLine.moves) - 1, 0)

\* Next was asked for on a line of no move.
C4_NextOnEmptyLine ==
  /\ ev.op = "nextPosition"
  /\ explorationState.isActive
  /\ explorationState.currentLine.moves = << >>

\* C5: gotoMove(k) with -1 <= k < length of moveHistory, on a game whose
\* moves replay from the initial position, leaves moveHistory as it was, sets
\* currentMoveIndex to k and shows the position after the first k + 1 moves.
C5_GotoMoveShowsPrefix ==
  [][\A k \in Indexes :
       (/\ ev'.op = "gotoMove"
        /\ k >= -1 /\ k < Len(gameState.moveHistory)
        /\ CallGotoMoveOf(k)
        /\ Replayable)
         => /\ gameState'.moveHistory = gameState.moveHistory
            /\ gameState'.currentMoveIndex = k
            /\ gameState'.fen =
                 Fen(PlaySans(NewChess, SubSeq(gameState.moveHistory, 1, k + 1)).game.pos)
            /\ ~ev'.threw]_vars

\* gotoMove went below the tail of a game of two moves.
C5_WentBelowTail ==
  /\ ev.op = "gotoMove"
  /\ ~ev.threw
  /\ Len(gameState.moveHistory) = 2
  /\ gameState.currentMoveIndex < 1
  /\ Replayable
  /\ gameState.fen =
       Fen(PlaySans(NewChess,
                    SubSeq(gameState.moveHistory, 1, gameState.currentMoveIndex + 1)).game.pos)

\* C6: exitExploration returns the fen, the move index and the move history
\* that the enterExploration before it was given, whatever nextPosition and
\* previousPosition did in between, and leaves the exploration inactive with
\* no line, position 0 and nothing saved.
C6_ExitReturnsEntry ==
  [][(ev'.op = "exitExploration" /\ entry.open)
       => /\ ev'.saved = [fen |-> entry.fen, moveIndex |-> entry.moveIndex,
                          moveHistory |-> entry.moveHistory]
          /\ explorationState' = InactiveExploration]_vars

\* exitExploration gave back the snapshot of a game one move in.
C6_SnapshotReturned ==
  /\ ev.op = "exitExploration"
  /\ ev.saved.moveIndex = 0
  /\ ev.saved.moveHistory = <<SanE4>>
  /\ ~explorationState.isActive

\* C7: a makeMove that succeeds, in any state outside exploration and also
\* right after a gotoMove below the tail, appends one record: the moveHistory
\* before it is a prefix of the one after, which is one longer, and
\* currentMoveIndex is the last index.
C7_MakeMoveAppendsOne ==
  [][(ev'.op = "makeMove" /\ ev'.ret = "true")
       => /\ Len(gameState'.moveHistory) = Len(gameState.moveHistory) + 1
          /\ SubSeq(gameState'.moveHistory, 1, Len(gameState.moveHistory))
               = gameState.moveHistory
          /\ gameState'.currentMoveIndex = Len(gameState'.moveHistory) - 1]_vars

\* C8: undoMove on a moveHistory that is not empty, also right after a
\* gotoMove below the tail, removes the last record only and shows the
\* position the remaining moves give from the initial position.
C8_UndoRemovesLast ==
  [][(ev'.op = "undoMove" /\ Len(gameState.moveHistory) > 0)
       => /\ gameState'.moveHistory
               = SubSeq(gameState.moveHistory, 1, Len(gameState.moveHistory) - 1)
          /\ PlaySans(NewChess, gameState'.moveHistory).ok
          /\ gameState'.fen = Fen(PlaySans(NewChess, gameState'.moveHistory).game.pos)]_vars

\* C9: makeMove with a move that is illegal in the current position, the one
\* the fen of gameState shows, returns false, leaves the game state (fen,
\* moveHistory, currentMoveIndex, isGameOver, turn) as it was and throws
\* nothing.
C9_IllegalMoveRefused ==
  [][\A m \in Drops :
       (/\ ev'.op = "makeMove"
        /\ ~Legal(Shown(gameState).pos, Square(m[1]), Square(m[2]))
        /\ CallMakeMoveOf(m))
         => /\ ev'.ret = "false"
            /\ ~ev'.threw
            /\ gameState' = gameState]_vars

\* C9, for the position the engine holds: a move that is illegal there is
\* refused, and the game state and the engine stay as they were.  The engine
\* holds another position than the one shown after a loadPgn that stopped at
\* an illegal move and after a gotoMove that threw.
C9_EngineRefusesIllegal ==
  [][\A m \in Drops :
       (/\ ev'.op = "makeMove"
        /\ ~Legal(game.pos, Square(m[1]), Square(m[2]))
        /\ CallMakeMoveOf(m))
         => /\ ev'.ret = "false"
            /\ ~ev'.threw
            /\ gameState' = gameState
            /\ game' = game]_vars

\* C10: currentMoveIndex is always within -1..(length of moveHistory - 1).
C10_IndexWithinHistory ==
  gameState.currentMoveIndex \in -1..(Len(gameState.moveHistory) - 1)

\* A click in the move list went below the tail of a game of two moves.
C10_ClickedBelowTail ==
  /\ ev.op = "handleMoveClick"
  /\ Len(gameState.moveHistory) = 2
  /\ gameState.currentMoveIndex = 0

\* C11: in every reachable state the fen of gameState is that of the position
\* reached by replaying moveHistory up to currentMoveIndex from the initial
\* position: after loadFen, during and after an exploration, and after moves
\* made on a loaded position.
C11_FenIsReplayOfPrefix ==
  /\ gameState.currentMoveIndex + 1 \in 0..Len(gameState.moveHistory)
  /\ PlaySans(NewChess,
              SubSeq(gameState.moveHistory, 1, gameState.currentMoveIndex + 1)).ok
  /\ gameState.fen =
       Fen(PlaySans(NewChess,
                    SubSeq(gameState.moveHistory, 1,
                           gameState.currentMoveIndex + 1)).game.pos)

\* C12: no operation of the hooks throws: each of makeMove, undoMove,
\* resetGame, loadFen, loadPgn and gotoMove ends with a value, gotoMove also
\* when moveHistory was recorded on a position loaded by loadFen.
C12_NothingThrows == ~ev.threw

\* C13: loadFen or loadPgn with a text that is not valid returns false and
\* leaves fen, moveHistory, currentMoveIndex, isGameOver and turn of gameState
\* as they were.
C13_InvalidLoadRefused ==
  [][/\ \A fen \in FenInputs :
          (ev'.op = "loadFen" /\ ~ValidFen(fen) /\ CallLoadFenOf(fen))
            => ev'.ret = "false" /\ ~ev'.threw /\ gameState' = gameState
     /\ \A pgn \in PgnInputs :
          (ev'.op = "loadPgn" /\ ~PlaySans(NewChess, pgn).ok /\ CallLoadPgnOf(pgn))
            => ev'.ret = "false" /\ ~ev'.threw /\ gameState' = gameState]_vars

\* A load was refused in a game with a move made.
C13_LoadRefusedAfterMove ==
  /\ ev.op \in {"loadFen", "loadPgn"}
  /\ ev.ret = "false"
  /\ Len(gameState.moveHistory) > 0

\* C14: gotoMove(index) with index < -1 or index >= length of moveHistory
\* changes nothing: gameState is as it was and the engine is not reset.
C14_GotoOutOfRangeIdle ==
  [][\A k \in Indexes :
       (/\ ev'.op = "gotoMove"
        /\ (k < -1 \/ k >= Len(gameState.moveHistory))
        /\ CallGotoMoveOf(k))
         => gameState' = gameState /\ game' = game /\ ~ev'.threw]_vars

\* gotoMove has returned with the engine holding moves that a replay to
\* currentMoveIndex would not have left: the call was out of range.
C14_WentNowhere ==
  /\ ev.op = "gotoMove"
  /\ ~ev.threw
  /\ Len(game.history) # gameState.currentMoveIndex + 1

\* C15: whenever the exploration is not active, currentLine is null,
\* currentPosition is 0, savedFen is '', savedMoveIndex is -1 and
\* savedMoveHistory is empty, also after nextPosition or previousPosition
\* called while it is not active.
C15_InactiveIsDefault ==
  ~explorationState.isActive => explorationState = InactiveExploration

\* nextPosition was called with no exploration active.
C15_NextWhileInactive ==
  /\ ev.op = "nextPosition"
  /\ ~explorationState.isActive

\* C16: outside exploration the moves getPgn() writes are all the moves of
\* moveHistory, also when gotoMove has put currentMoveIndex below the tail.
C16_PgnIsWholeHistory ==
  ~explorationState.isActive => getPgn(game).movetext = gameState.moveHistory

\* C17: a loadPgn(text) that succeeds, followed at once by getPgn(), gives the
\* moves of text; moveHistory is that sequence of moves and currentMoveIndex
\* is its last index.
C17_PgnRoundTrip ==
  [][\A pgn \in PgnInputs :
       (ev'.op = "loadPgn" /\ ev'.ret = "true" /\ CallLoadPgnOf(pgn))
         => /\ getPgn(game').movetext = pgn
            /\ gameState'.moveHistory = pgn
            /\ gameState'.currentMoveIndex = Len(pgn) - 1]_vars

\* A record of two moves was loaded over a game of another length.
C17_TwoMovesLoaded ==
  /\ ev.op = "loadPgn"
  /\ ev.ret = "true"
  /\ gameState.moveHistory = <<SanE4, SanE5>>
  /\ gameState.currentMoveIndex = 1
  /\ getPgn(game).movetext = <<SanE4, SanE5>>

\* C18: no request to the coach is sent while an exploration is active.
C18_NoRequestWhileExploring ==
  [][Len(chat'.pending) > Len(chat.pending) => ~explorationState.isActive]_vars

\* An exploration is active with a question typed and no request awaited:
\* only the disabled prop keeps the question from being sent.
C18_QuestionHeldBack ==
  /\ explorationState.isActive
  /\ Trim(chat.input) # << >>
  /\ ~chat.loading

\* C19: at most one request to the coach is awaited at any time, and a
\* handleSend called while one is awaited (loading is true) sends no request
\* and appends no message.
C19_SingleFlight ==
  [][/\ Len(chat'.pending) <= 1
     /\ (ev'.op = "handleSend" /\ chat.loading)
          => chat'.pending = chat.pending /\ chat'.messages = chat.messages]_vars

\* handleSend was called with a question typed while a request was awaited.
C19_SentWhileAwaited ==
  /\ ev.op = "handleSend"
  /\ chat.loading
  /\ Len(chat.pending) = 1
  /\ Trim(chat.input) # << >>

\* C20: an answer of the coach that arrives when the game is no longer as the
\* request saw it (a move was made, a new game started, an exploration
\* entered or left) is discarded: no message with its lines is appended.
C20_StaleAnswerDiscarded ==
  [][(/\ ev'.op = "coachResponse"
      /\ chat.pending # << >>
      /\ \/ Head(chat.pending).fen # gameState.fen
         \/ Head(chat.pending).moveHistory # gameState.moveHistory
         \/ explorationState.isActive)
       => ~(/\ Len(chat'.messages) > Len(chat.messages)
            /\ chat'.messages[Len(chat'.messages)].hasLines)]_vars

\* C21: handleExitExploration leaves the game showing the savedFen of the
\* exploration it ends, whatever the game was when the exploration was
\* entered: also a game at currentMoveIndex -1 on a position that is not the
\* initial one.
C21_ExitShowsSavedFen ==
  [][(ev'.op = "handleExitExploration" /\ explorationState.isActive)
       => gameState'.fen = explorationState.savedFen]_vars

\* The scratch engine after the first n moves of the explored line, replayed
\* from savedFen.
LineReplay(ex, n) == ReplayLine(NewChessFrom(ex.savedFen).game, SubSeq(ex.currentLine.moves, 1, n))

\* Every move of the explored line is legal where the replay from savedFen
\* tries it.
AllLegal(ex) == Len(LineReplay(ex, Len(ex.currentLine.moves)).history) = Len(ex.currentLine.moves)

\* C22: on a line whose moves are all legal, a handleExplorationNext below the
\* last position adds 1 to currentPosition and a handleExplorationPrevious
\* above position 0 takes 1 from it, and the position shown after either is
\* the replay of the moves up to the new currentPosition from savedFen.
C22_StepShowsReplayFromSaved ==
  [][(/\ explorationState.isActive
      /\ \/ /\ ev'.op = "handleExplorationNext"
            /\ explorationState.currentPosition + 1 < Len(explorationState.currentLine.moves)
         \/ /\ ev'.op = "handleExplorationPrevious"
            /\ explorationState.currentPosition > 0
      /\ AllLegal(explorationState))
       => /\ explorationState'.currentPosition
               = explorationState.currentPosition
                   + (IF ev'.op = "handleExplorationNext" THEN 1 ELSE -1)
          /\ gameState'.fen
               = Fen(LineReplay(explorationState, explorationState'.currentPosition + 1).pos)]_vars

\* Next and then Previous on the line e2e4 e7e5 of a new game: position 0
\* again, showing the position after e2e4 alone.
C22_BackOnFirstMove ==
  /\ ev.op = "handleExplorationPrevious"
  /\ explorationState.isActive
  /\ explorationState.currentPosition = 0
  /\ Len(explorationState.currentLine.moves) = 2
  /\ gameState.fen = Fen(Play(DefaultPosition, At(5, 2), At(5, 4)))

\* C23: a handleExplore called while an exploration is active does nothing:
\* savedFen, savedMoveIndex and savedMoveHistory stay those taken when the
\* exploration was entered from the game, and the explored line and the
\* game state stay too.
C23_NestedExploreRefused ==
  [][(ev'.op = "handleExplore" /\ explorationState.isActive)
       => /\ explorationState'.savedFen = explorationState.savedFen
          /\ explorationState'.savedMoveIndex = explorationState.savedMoveIndex
          /\ explorationState'.savedMoveHistory = explorationState.savedMoveHistory
          /\ explorationState'.currentLine = explorationState.currentLine
          /\ gameState' = gameState]_vars

\* C27: whenever an exploration is active, right after handleExplore as well
\* as after Next and Previous, the position shown is the replay of the moves
\* of the explored line up to currentPosition from savedFen.
C27_ShownIsLineAtPosition ==
  explorationState.isActive
    => gameState.fen
         = Fen(LineReplay(explorationState,
                          Min(explorationState.currentPosition + 1,
                              Len(explorationState.currentLine.moves))).pos)

\* C28: whenever an exploration is active, the moveHistory and the
\* currentMoveIndex of the game are the saved ones.
C28_HistoryKeptWhileExploring ==
  explorationState.isActive
    => /\ gameState.moveHistory = explorationState.savedMoveHistory
       /\ gameState.currentMoveIndex = explorationState.savedMoveIndex

\* C29: handleExitExploration called while no exploration is active does
\* nothing: fen, moveHistory and currentMoveIndex are as before and the
\* engine is not reset.
C29_ExitWhileInactiveIdle ==
  [][(ev'.op = "handleExitExploration" /\ ~explorationState.isActive)
       => /\ gameState'.fen = gameState.fen
          /\ gameState'.moveHistory = gameState.moveHistory
          /\ gameState'.currentMoveIndex = gameState.currentMoveIndex
          /\ game' = game]_vars

\* C24: from a handleExplore to the handleExitExploration after it,
\* savedFen, savedMoveIndex, savedMoveHistory and the explored line never
\* change, whatever is called in between.
C24_SnapshotFrozenWhileExploring ==
  [][(explorationState.isActive /\ ev'.op # "handleExitExploration")
       => /\ explorationState'.savedFen = explorationState.savedFen
          /\ explorationState'.savedMoveIndex = explorationState.savedMoveIndex
          /\ explorationState'.savedMoveHistory = explorationState.savedMoveHistory
          /\ explorationState'.currentLine = explorationState.currentLine]_vars

\* C24, for the calls other than handleExplore: Next and Previous, the page
\* handlers and a loadFen or loadPgn of the game change no field of the
\* exploration other than currentPosition.
C24_StepsKeepSnapshot ==
  [][(explorationState.isActive /\ ev'.op \notin {"handleExplore", "handleExitExploration"})
       => explorationState'
            = [explorationState EXCEPT !.currentPosition = explorationState'.currentPosition]]_vars

\* C25: handleExplorationNext at the last position of the line,
\* handleExplorationPrevious at position 0, and either of them while no line
\* is explored change nothing: the exploration, the game state and the
\* engine are as they were.
C25_StepAtBoundIdle ==
  [][(\/ /\ ev'.op = "handleExplorationNext"
         /\ \/ explorationState.currentLine = NullLine
            \/ explorationState.currentPosition
                 = Len(explorationState.currentLine.moves) - 1
      \/ /\ ev'.op = "handleExplorationPrevious"
         /\ \/ explorationState.currentLine = NullLine
            \/ explorationState.currentPosition = 0)
       => /\ explorationState' = explorationState
          /\ gameState' = gameState
          /\ game' = game
          /\ ~ev'.threw]_vars

\* Previous was asked for at position 0 of the line e2e4 e7e5 just entered:
\* the end of the line is still shown.
C25_PreviousAtStart ==
  /\ ev.op = "handleExplorationPrevious"
  /\ explorationState.isActive
  /\ explorationState.currentPosition = 0
  /\ Len(explorationState.currentLine.moves) = 2
  /\ Plies(Shown(gameState).pos) = 2

\* C26: a loadFen that succeeds replaces the game state as a whole: fen is
\* the loaded position, moveHistory is empty, currentMoveIndex is -1, turn
\* and isGameOver are those of the loaded position, and the engine holds no
\* move of the game before.
C26_LoadFenReplacesGameState ==
  [][\A fen \in FenInputs :
       (ev'.op = "loadFen" /\ ValidFen(fen) /\ CallLoadFenOf(fen))
         => /\ ev'.ret = "true"
            /\ gameState' = [fen |-> Fen(ParseFen(fen)),
                             moveHistory |-> << >>,
                             currentMoveIndex |-> -1,
                             isGameOver |-> ParseFen(fen).half >= 100,
                             turn |-> ParseFen(fen).turn]
            /\ game'.history = << >>]_vars

\* loadFen has put the position after e2e4 on the board: Black to move and
\* no move recorded.
C26_LoadedOneMoveIn ==
  /\ ev.op = "loadFen"
  /\ ev.ret = "true"
  /\ gameState.turn = "b"
  /\ Plies(game.pos) = 1
  /\ gameState.moveHistory = << >>

\* The messages of the chat written by role.
MessagesOf(c, role) == Cardinality({i \in 1..Len(c.messages) : c.messages[i].role = role})

\* C30: when every coachChat request is resolved or rejected in the end, a
\* loading that handleSend has set is cleared in the end, on each path, and
\* each question taken is answered by one coach message: the coach messages
\* and the requests still awaited add up to the user messages.
C30_LoadingEnds ==
  /\ [](MessagesOf(chat, "coach") + Len(chat.pending) = MessagesOf(chat, "user"))
  /\ [](chat.loading <=> chat.pending # << >>)
  /\ (chat.loading ~> ~chat.loading)

\* A request was rejected: the apology is the one answer to the question and
\* loading is cleared.
C30_RejectionAnswered ==
  /\ ev.op = "coachFailure"
  /\ ~chat.loading
  /\ Len(chat.messages) = 2
  /\ chat.messages[2] = CoachMessage(SorryText)

====
